---- MODULE Spec2Model ----
(***************************************************************************)
(* State-machine model of src/attacks/sga.py: the SGAttack perturbation    *)
(* generator (SGAttack.attack) and its SGA wrapper.                        *)
(*                                                                         *)
(* One attack instance is modelled.  The caller advances the generator     *)
(* with next() (SGA.create_adversarial_pert); every such call is one       *)
(* action.  The surrogate model, the features and therefore the gradients  *)
(* are external inputs: compute_gradient is a nondeterministic choice of   *)
(* gradient vectors.  attack_structure is True and attack_features is      *)
(* False in every instance (sga.py:102-103), so the feature branch of the  *)
(* loop is never taken and feature_perturbations stays empty.              *)
(*                                                                         *)
(* Adjacency matrices are sets of ordered pairs <<u, v>> (the non-zero     *)
(* entries); the input adjacency is symmetric, 0/1 and without self-loops. *)
(* An Optional[int] is <<>> (None) or <<k>>.                               *)
(***************************************************************************)
EXTENDS Integers, Sequences, FiniteSets, TLC

\* ------------------------------------------------------------------ bounds
NumNodes == 3
MaxPert == 2
MaxInfl == 1
MaxK == 2

\* n_influencers default of SGAttack.__init__ (the value SGA leaves in place)
DefaultInfluencers == 3

Nodes == 0 .. (NumNodes - 1)

\* ----------------------------------------------------------------- helpers
Range(s) == { s[i] : i \in 1 .. Len(s) }

RECURSIVE SortedSeq(_)
SortedSeq(S) ==
    IF S = {} THEN << >>
    ELSE LET m == CHOOSE x \in S : \A y \in S : x <= y
         IN  << m >> \o SortedSeq(S \ {m})

PairLeq(p, q) == p[1] < q[1] \/ (p[1] = q[1] /\ p[2] <= q[2])

RECURSIVE SortedPairs(_)
SortedPairs(S) ==
    IF S = {} THEN << >>
    ELSE LET m == CHOOSE p \in S : \A q \in S : PairLeq(p, q)
         IN  << m >> \o SortedPairs(S \ {m})

MinOf(S) == CHOOSE x \in S : \A y \in S : x <= y
MaxOf(S) == CHOOSE x \in S : \A y \in S : x >= y

\* torch.max(t, dim=0): the maximum and the index of its first occurrence
ArgMaxFirst(s) == MinOf({ i \in 1 .. Len(s) : s[i] = MaxOf(Range(s)) })

\* ------------------------------------------------------------------ state
VARIABLES
    entry,                   \* "SGAttack" (built directly) or "SGA" (wrapper)
    arg_direct,              \* the direct argument the caller passed
    arg_n_influencers,       \* the n_influencers argument the caller passed
    direct,                  \* SGAttack.direct
    n_influencers,           \* SGAttack.n_influencers
    n_perturbations,         \* SGAttack.n_perturbations
    K,                       \* surrogate_model.K
    target_node,
    ori_adj,                 \* the original adjacency A
    y,                       \* labels
    best_wrong_label,
    pc,                      \* position of the generator
    error,                   \* exception raised by the last next(), or "none"
    iter,                    \* completed iterations of the for loop
    selfloop_degree,
    subgraph,
    structure_perturbations,
    feature_perturbations,
    modified_adj,
    returned                 \* values returned by next() so far

vars == << entry, arg_direct, arg_n_influencers, direct, n_influencers,
           n_perturbations, K, target_node, ori_adj, y, best_wrong_label,
           pc, error, iter, selfloop_degree, subgraph,
           structure_perturbations, feature_perturbations, modified_adj,
           returned >>

config == << entry, arg_direct, arg_n_influencers, direct, n_influencers,
             n_perturbations, K, target_node, ori_adj, y, best_wrong_label >>

\* the terminal marker (None) yielded at sga.py:246
NoneMarker == << >>
\* self.modified_adj = None (sga.py:119): no matrix
NoAdj == { << -1, -1 >> }

\* a SubGraph namedtuple that has not been built
NoSubGraph ==
    [ edge_index |-> << >>, non_edge_index |-> << >>, self_loop |-> << >>,
      edge_weight |-> << >>, non_edge_weight |-> << >> ]

\* ------------------------------------------------- ego_subgraph (364-374)
\* nodes within k hops of t (torch_geometric k_hop_subgraph's subset)
RECURSIVE k_hop_nodes(_, _, _)
k_hop_nodes(adj, t, k) ==
    IF k = 0 THEN {t}
    ELSE LET S == k_hop_nodes(adj, t, k - 1)
         IN  S \cup { v \in Nodes : \E u \in S : << u, v >> \in adj }

\* mutant: the isolated-target test is dropped and the whole graph returned
ego_subgraph_whole(adj, t, k) ==
    [ sub_nodes |-> { u \in Nodes : \E v \in Nodes : << u, v >> \in adj },
      sub_edges |-> SortedPairs({ p \in adj : p[1] < p[2] }) ]

ego_subgraph(adj, t, k) ==
    IF \E p \in adj : p[1] = t \/ p[2] = t
    THEN LET sub == k_hop_nodes(adj, t, k)
         IN  [ sub_nodes |-> sub,
               sub_edges |-> SortedPairs({ p \in adj : /\ p[1] \in sub
                                                       /\ p[2] \in sub
                                                       /\ p[1] < p[2] }) ]
    ELSE [ sub_nodes |-> {}, sub_edges |-> << >> ]

\* ------------------------------------------ subgraph_processing (281-320)
\* np.repeat(influencers, len(attackers)) x np.tile(attackers, len(influencers))
CartesianPairs(influencers, attacker_nodes) ==
    [ i \in 1 .. (Len(influencers) * Len(attacker_nodes)) |->
        << influencers[((i - 1) \div Len(attacker_nodes)) + 1],
           attacker_nodes[((i - 1) % Len(attacker_nodes)) + 1] >> ]

NotInAdj(adj, pairs) ==
    LET absent(p) == p \notin adj
    IN  SelectSeq(pairs, absent)

FilterNonEdges(adj, influencers, non_edges) ==
    IF Len(influencers) > 1 THEN NotInAdj(adj, non_edges) ELSE non_edges

subgraph_processing(adj, influencers, attacker_nodes, sub_nodes, sub_edges) ==
    LET non_edges == FilterNonEdges(adj, influencers,
                                    CartesianPairs(influencers, attacker_nodes))
        unique_nodes == SortedSeq(sub_nodes \cup Range(attacker_nodes))
    IN  [ edge_index      |-> sub_edges,
          non_edge_index  |-> non_edges,
          self_loop       |-> unique_nodes,
          edge_weight     |-> [ i \in 1 .. Len(sub_edges) |-> 1 ],
          non_edge_weight |-> [ i \in 1 .. Len(non_edges) |-> 0 ] ]

\* ----------------------------------------- get_topk_influencers (274-279)
\* torch.topk(non_edge_grad, k) raises when k exceeds the number of entries
topk_raises(sg, k) == k > Len(sg.non_edge_index)

\* otherwise k distinct slots, picked by the gradient; the attacker column of
\* each (listed in slot order: torch leaves the order unspecified)
get_topk_influencers(sg, k) ==
    { [ j \in 1 .. k |-> sg.non_edge_index[SortedSeq(I)[j]][2] ] :
        I \in { J \in SUBSET (1 .. Len(sg.non_edge_index)) : Cardinality(J) = k } }

\* ------------------------------------------------- get_subgraph (249-272)
neighbors_of(adj, t) == SortedSeq({ v \in Nodes : << t, v >> \in adj })

\* torch.where(labels == best_wrong_label)
attacker_pool(labels, label) == SortedSeq({ v \in Nodes : labels[v] = label })

\* np.setdiff1d(attacker_nodes, neighbors)
setdiff1d(a, b) == SortedSeq(Range(a) \ Range(b))

\* attacker nodes handed to the first subgraph_processing call
first_attackers(adj, t, dir, n_infl, attackers) ==
    IF dir \/ n_infl # << >>
    THEN setdiff1d(attackers, neighbors_of(adj, t))
    ELSE attackers

\* the set of outcomes: [raised, subgraph]
get_subgraph(adj, t, k, dir, n_infl, n_pert, attackers) ==
    LET neighbors == neighbors_of(adj, t)
        ego == ego_subgraph(adj, t, k)
        influencers == IF dir \/ n_infl # << >> THEN << t >> ELSE neighbors
        first == subgraph_processing(adj, influencers,
                     first_attackers(adj, t, dir, n_infl, attackers),
                     ego.sub_nodes, ego.sub_edges)
        topk == IF dir THEN n_pert + 1 ELSE n_infl[1]
        influencers2 == IF dir THEN << t >> ELSE neighbors
    IN  IF n_infl = << >>
        THEN { [ raised |-> FALSE, subgraph |-> first ] }
        ELSE IF topk_raises(first, topk)
        THEN { [ raised |-> TRUE, subgraph |-> NoSubGraph ] }
        ELSE { [ raised |-> FALSE,
                 subgraph |-> subgraph_processing(adj, influencers2, att,
                                  ego.sub_nodes, ego.sub_edges) ] :
               att \in get_topk_influencers(first, topk) }

\* --------------------------------------------- compute_gradient (329-362)
\* The gradients depend on the surrogate's weights and on the features, which
\* are inputs: any vector may come back.  The family drawn from here is the
\* zero vector (a surrogate whose XW is zero) and every vector with a single
\* entry of +1 or -1, which lets every slot win the selection.
OneHot(n, i, s) == [ j \in 1 .. n |-> IF j = i THEN s ELSE 0 ]
ZeroVec(n) == [ j \in 1 .. n |-> 0 ]

compute_gradient(sg) ==
    LET E == Len(sg.edge_index)
        M == Len(sg.non_edge_index)
    IN  { [ edge_grad |-> ZeroVec(E), non_edge_grad |-> ZeroVec(M) ] }
        \cup { [ edge_grad |-> OneHot(E, i, s), non_edge_grad |-> ZeroVec(M) ] :
                 i \in 1 .. E, s \in {-1, 1} }
        \cup { [ edge_grad |-> ZeroVec(E), non_edge_grad |-> OneHot(M, j, s) ] :
                 j \in 1 .. M, s \in {-1, 1} }

\* ------------------------------------------- one loop iteration (182-226)
\* mutant: no edge is masked
EdgeMask_none(edge_index, t) == {}

\* the indirect-attack mask (176): edges adjacent to the target
EdgeMask(edge_index, t) ==
    { i \in 1 .. Len(edge_index) : edge_index[i][1] = t \/ edge_index[i][2] = t }

\* x[best_edge] += d with best_edge = [u, v] (index_put without accumulation)
BumpDegree(deg, u, v, d) ==
    [ w \in DOMAIN deg |-> IF w = u \/ w = v THEN deg[w] + d ELSE deg[w] ]

\* the branch taken at line 213
RemovesEdge(max_edge_grad, max_non_edge_grad) == max_edge_grad > max_non_edge_grad

\* the flip applied for one gradient g
select_and_apply(sg, deg, dir, t, g) ==
    LET E == Len(sg.edge_index)
        M == Len(sg.non_edge_index)
        edge_score == [ i \in 1 .. E |-> g.edge_grad[i] * (-2 * sg.edge_weight[i] + 1) ]
        non_edge_score ==
            [ j \in 1 .. M |-> g.non_edge_grad[j] * (-2 * sg.non_edge_weight[j] + 1) ]
        min_grad == IF E > 0
                    THEN MinOf(Range(edge_score) \cup Range(non_edge_score))
                    ELSE MinOf(Range(non_edge_score))
        mask == EdgeMask(sg.edge_index, t)
        edge_shift == [ i \in 1 .. E |->
                          IF ~dir /\ i \in mask THEN 0 ELSE edge_score[i] - min_grad ]
        non_edge_shift == [ j \in 1 .. M |-> non_edge_score[j] - min_grad ]
        max_edge_grad == IF E > 0 THEN MaxOf(Range(edge_shift)) ELSE 0
        max_non_edge_grad == MaxOf(Range(non_edge_shift))
    IN  IF RemovesEdge(max_edge_grad, max_non_edge_grad)
        THEN LET idx == ArgMaxFirst(edge_shift)
                 best_edge == sg.edge_index[idx]
             IN  [ raised |-> FALSE,
                   subgraph |-> [ sg EXCEPT !.edge_weight[idx] = 0 ],
                   selfloop_degree |-> BumpDegree(deg, best_edge[1], best_edge[2], -1),
                   pert |-> best_edge ]
        ELSE LET idx == ArgMaxFirst(non_edge_shift)
                 best_edge == sg.non_edge_index[idx]
             IN  [ raised |-> FALSE,
                   subgraph |-> [ sg EXCEPT !.non_edge_weight[idx] = 1 ],
                   selfloop_degree |-> BumpDegree(deg, best_edge[1], best_edge[2], 1),
                   pert |-> best_edge ]

\* non_edge_grad.min() (189, 195) raises on an empty tensor
loop_body(sg, deg, dir, t) ==
    IF Len(sg.non_edge_index) = 0
    THEN { [ raised |-> TRUE, subgraph |-> sg, selfloop_degree |-> deg,
             pert |-> << >> ] }
    ELSE { select_and_apply(sg, deg, dir, t, g) : g \in compute_gradient(sg) }

\* ----------------------------------------------- materialization (233-242)
SetEntry(M, r, c, val) == IF val = 0 THEN M \ { << r, c >> } ELSE M \cup { << r, c >> }

\* 1 - modified_adj[row, col].A, read from the copy before any assignment
Complement(adj, log) ==
    [ i \in 1 .. Len(log) |-> IF log[i] \in adj THEN 0 ELSE 1 ]

\* M[rows, cols] = vals, entry by entry
RECURSIVE AssignAll(_, _, _, _, _)
AssignAll(M, rows, cols, vals, i) ==
    IF i > Len(vals) THEN M
    ELSE AssignAll(SetEntry(M, rows[i], cols[i], vals[i]), rows, cols, vals, i + 1)

\* mutant: only modified_adj[row, col] is assigned
Materialize_one_way(adj, log) ==
    IF Len(log) > 0
    THEN AssignAll(adj, [ i \in 1 .. Len(log) |-> log[i][1] ],
                   [ i \in 1 .. Len(log) |-> log[i][2] ], Complement(adj, log), 1)
    ELSE adj

Materialize(adj, log) ==
    IF Len(log) > 0
    THEN LET row == [ i \in 1 .. Len(log) |-> log[i][1] ]
             col == [ i \in 1 .. Len(log) |-> log[i][2] ]
             vals == Complement(adj, log)
         IN  AssignAll(AssignAll(adj, row, col, vals, 1), col, row, vals, 1)
    ELSE adj

\* ------------------------------------------------------------------- Init
UndirectedPairs == { p \in Nodes \X Nodes : p[1] < p[2] }
Symmetric(E) == E \cup { << p[2], p[1] >> : p \in E }

OptionalInfluencers == { << >> } \cup { << k >> : k \in 1 .. MaxInfl }

\* the target ids tried: the smallest and the largest id, so that the target
\* is the first endpoint of its sorted edges in one case and the second in
\* the other
TargetChoices == { 0, NumNodes - 1 }

\* adj.sum(1).A1 + 1 (164)
InitialDegree(adj) ==
    [ v \in Nodes |-> Cardinality({ w \in Nodes : << v, w >> \in adj }) + 1 ]

\* SGAttack.__init__ (97-132), called by the user (e = "SGAttack") or by
\* SGA.__init__ (386-391, e = "SGA"), which hands on neither direct nor
\* n_influencers.  The classes are 0 and 1; the target's class is called 0 and
\* the best wrong class 1.
Construct(e) ==
    /\ entry = e
    /\ arg_direct \in BOOLEAN
    /\ arg_n_influencers \in OptionalInfluencers
    /\ direct = IF entry = "SGA" THEN TRUE ELSE arg_direct
    /\ n_influencers = IF entry = "SGA" THEN << DefaultInfluencers >>
                       ELSE arg_n_influencers
    /\ n_perturbations \in 0 .. MaxPert
    /\ K \in 1 .. MaxK
    /\ target_node \in TargetChoices
    /\ ori_adj \in { Symmetric(E) : E \in SUBSET UndirectedPairs }
    /\ y \in { f \in [ Nodes -> {0, 1} ] : f[target_node] = 0 }
    /\ best_wrong_label = 1
    /\ pc = "created"
    /\ error = "none"
    /\ iter = 0
    /\ selfloop_degree = [ v \in Nodes |-> 0 ]
    /\ subgraph = NoSubGraph
    /\ structure_perturbations = << >>
    /\ feature_perturbations = << >>
    /\ modified_adj = NoAdj
    /\ returned = << >>

\* an SGAttack built and driven directly
Init == Construct("SGAttack")

\* an SGAttack built and driven through the SGA wrapper
InitSGA == Construct("SGA")

\* ---------------------------------------------------------------- actions
\* an exception leaves the generator: it is closed
Raise(deg) ==
    /\ pc' = "raised"
    /\ error' = "RuntimeError"
    /\ selfloop_degree' = deg
    /\ UNCHANGED << config, iter, subgraph, structure_perturbations,
                    feature_perturbations, modified_adj, returned >>

\* the for loop from its head (181) to the next yield (226 or 246)
RunLoop(sg, deg) ==
    IF iter < n_perturbations
    THEN \E o \in loop_body(sg, deg, direct, target_node) :
            IF o.raised
            THEN /\ pc' = "raised"
                 /\ error' = "RuntimeError"
                 /\ subgraph' = sg
                 /\ selfloop_degree' = deg
                 /\ UNCHANGED << config, iter, structure_perturbations,
                                 feature_perturbations, modified_adj, returned >>
            ELSE /\ pc' = "suspended"
                 /\ error' = "none"
                 /\ iter' = iter + 1
                 /\ subgraph' = o.subgraph
                 /\ selfloop_degree' = o.selfloop_degree
                 /\ structure_perturbations' = Append(structure_perturbations, o.pert)
                 /\ returned' = Append(returned, o.pert)
                 /\ UNCHANGED << config, feature_perturbations, modified_adj >>
    ELSE /\ pc' = "finished"
         /\ error' = "none"
         /\ subgraph' = sg
         /\ selfloop_degree' = deg
         /\ modified_adj' = Materialize(ori_adj, structure_perturbations)
         /\ returned' = Append(returned, NoneMarker)
         /\ UNCHANGED << config, iter, structure_perturbations,
                         feature_perturbations >>

\* first next(): lines 150-180, then the loop
Start ==
    /\ pc = "created"
    /\ \E s \in get_subgraph(ori_adj, target_node, K, direct, n_influencers,
                             n_perturbations, attacker_pool(y, best_wrong_label)) :
          IF s.raised
          THEN Raise(InitialDegree(ori_adj))
          ELSE RunLoop(s.subgraph, InitialDegree(ori_adj))

\* a later next(): resume after the yield at 226
Resume ==
    /\ pc = "suspended"
    /\ RunLoop(subgraph, selfloop_degree)

\* next() on a generator that returned or raised: StopIteration
Closed ==
    /\ pc \in { "finished", "raised", "exhausted" }
    /\ pc' = "exhausted"
    /\ error' = "StopIteration"
    /\ UNCHANGED << config, iter, selfloop_degree, subgraph,
                    structure_perturbations, feature_perturbations,
                    modified_adj, returned >>

\* SGA.create_adversarial_pert (393-394): next(self.attack_generator)
Next == Start \/ Resume \/ Closed

Spec == Init /\ [][Next]_vars

SpecSGA == InitSGA /\ [][Next]_vars

\* ============================================================== the claims
log == structure_perturbations
Started == pc \in { "suspended", "finished" }
Pairs == { p \in Nodes \X Nodes : p[1] <= p[2] }
Degree(M, v) == Cardinality({ w \in Nodes : << v, w >> \in M })
\* occurrences of the unordered pair {u, v} in the log, in either orientation
Occurrences(u, v) ==
    Cardinality({ i \in 1 .. Len(log) : log[i] = << u, v >> \/ log[i] = << v, u >> })
IsolatedTarget == ~ \E p \in ori_adj : p[1] = target_node \/ p[2] = target_node
Endpoints(pairs) == { pairs[i][1] : i \in 1 .. Len(pairs) }
                        \cup { pairs[i][2] : i \in 1 .. Len(pairs) }
FlippedSlots ==
    Cardinality({ i \in 1 .. Len(subgraph.edge_weight) : subgraph.edge_weight[i] = 0 })
    + Cardinality({ j \in 1 .. Len(subgraph.non_edge_weight) :
                        subgraph.non_edge_weight[j] = 1 })

\* C1: after every perturbation the loop has applied, selfloop_degree[v] is
\* 1 + the degree of v in the adjacency obtained by replaying the log so far
\* against the original adjacency, for every node v.
C1_DegreeBookkeepingExact ==
    Started =>
        \A v \in Nodes :
            selfloop_degree[v] = 1 + Degree(Materialize(ori_adj, log), v)

\* C2: in a run with direct = False, with or without an influencer cap, no
\* pair of the structural perturbation log has the target node as an endpoint.
C2_IndirectNeverTouchesTarget ==
    ~direct =>
        \A i \in 1 .. Len(log) :
            log[i][1] # target_node /\ log[i][2] # target_node

\* C2 witness: an indirect run whose subgraph holds an edge at the target (a
\* masked slot) has removed an edge and logged it.
C2_Witness ==
    /\ ~direct
    /\ Started
    /\ EdgeMask(subgraph.edge_index, target_node) # {}
    /\ \E i \in 1 .. Len(subgraph.edge_weight) : subgraph.edge_weight[i] = 0

\* both entries of the pair differ from the original / neither does
BothDiffer(u, v) ==
    /\ (<< u, v >> \in modified_adj) # (<< u, v >> \in ori_adj)
    /\ (<< v, u >> \in modified_adj) # (<< v, u >> \in ori_adj)
NeitherDiffers(u, v) ==
    /\ (<< u, v >> \in modified_adj) = (<< u, v >> \in ori_adj)
    /\ (<< v, u >> \in modified_adj) = (<< v, u >> \in ori_adj)

EmptyPool ==
    first_attackers(ori_adj, target_node, direct, n_influencers,
                    attacker_pool(y, best_wrong_label)) = << >>

\* C4: with an empty attacker pool no call raises an error, and a run that
\* has returned its marker has completed all n_perturbations iterations.
C4_EmptyPoolNoError ==
    EmptyPool =>
        /\ error # "RuntimeError"
        /\ pc # "raised"
        /\ (pc = "finished" => iter = n_perturbations)

\* C5: through SGA.create_adversarial_pert the calls return n perturbation
\* pairs, then one terminal marker and nothing more, without an error; after
\* k returned pairs the log holds k entries, and at the marker the two logs
\* together hold n entries and the modified adjacency is exposed.
C5_StepProtocol ==
    /\ error # "RuntimeError"
    /\ pc # "raised"
    /\ Len(returned) <= n_perturbations + 1
    /\ \A i \in 1 .. Len(returned) :
          (returned[i] = NoneMarker) <=> (i = n_perturbations + 1)
    /\ (pc = "suspended" => Len(log) = Len(returned))
    /\ (pc = "finished" =>
          /\ Len(returned) = n_perturbations + 1
          /\ Len(log) + Len(feature_perturbations) = n_perturbations
          /\ modified_adj # NoAdj)

\* selfloop_degree before the step (line 164 runs in the first next())
DegreeBefore ==
    IF pc = "created" THEN InitialDegree(ori_adj) ELSE selfloop_degree

\* the step appended (u, v) by adding a candidate edge: a non-edge slot of
\* that pair has weight 1 and no edge slot was touched
AddedEdge ==
    /\ \E j \in 1 .. Len(subgraph'.non_edge_index) :
          /\ subgraph'.non_edge_index[j] = log'[Len(log')]
          /\ subgraph'.non_edge_weight[j] = 1
    /\ \A i \in 1 .. Len(subgraph'.edge_weight) : subgraph'.edge_weight[i] = 1

\* C6: with a target that has no edge in the original adjacency the
\* ego-subgraph is empty (no node, no edge), and every perturbation the loop
\* applies is an edge addition with the target as an endpoint, never a
\* removal, and raises the target's selfloop-degree by exactly 1.
C6_IsolatedTargetOnlyAdds ==
    /\ [](IsolatedTarget =>
            /\ ego_subgraph(ori_adj, target_node, K).sub_nodes = {}
            /\ ego_subgraph(ori_adj, target_node, K).sub_edges = << >>
            /\ subgraph.edge_index = << >>)
    /\ [][ (IsolatedTarget /\ Len(log') = Len(log) + 1) =>
             /\ AddedEdge
             /\ target_node \in { log'[Len(log')][1], log'[Len(log')][2] }
             /\ selfloop_degree'[target_node] = DegreeBefore[target_node] + 1
         ]_vars

\* C6 witness: an isolated target in a graph that has edges elsewhere, two
\* perturbations applied.
C6_Witness ==
    /\ IsolatedTarget
    /\ ori_adj # {}
    /\ pc = "suspended"
    /\ Len(log) = 2

\* C7: every iteration flips exactly one slot that was not flipped before, so
\* after k iterations exactly k slots are flipped, the weights are 0 or 1 and
\* the logged pairs are pairwise distinct.
C7_OneGenuineFlipPerIteration ==
    Started =>
        /\ FlippedSlots = iter
        /\ \A i \in 1 .. Len(subgraph.edge_weight) : subgraph.edge_weight[i] \in {0, 1}
        /\ \A j \in 1 .. Len(subgraph.non_edge_weight) :
              subgraph.non_edge_weight[j] \in {0, 1}
        /\ \A i, j \in 1 .. Len(log) : i # j => log[i] # log[j]

\* C8: every endpoint of an entry of edge_index or non_edge_index, the target
\* included when it is isolated, has a self-loop entry.
C8_SelfLoopCoverage ==
    Endpoints(subgraph.edge_index) \cup Endpoints(subgraph.non_edge_index)
        \subseteq Range(subgraph.self_loop)

\* C9: the SGAttack wrapped by SGA runs with the direct flag and the
\* influencer cap SGA was given, so an SGA built with direct = False never
\* logs a pair at the target.
C9_WrapperPassesConfiguration ==
    entry = "SGA" =>
        /\ direct = arg_direct
        /\ n_influencers = arg_n_influencers
        /\ (~arg_direct =>
              \A i \in 1 .. Len(log) :
                  log[i][1] # target_node /\ log[i][2] # target_node)

\* C10: every entry (u, v) of non_edge_index has u # v, is absent from the
\* original adjacency, and no unordered pair occupies two non-edge slots, for
\* direct and indirect attacks and any number of influencers.
C10_NonEdgesAreDistinctNonEdges ==
    LET ne == subgraph.non_edge_index
    IN  \A i \in 1 .. Len(ne) :
            /\ ne[i][1] # ne[i][2]
            /\ ne[i] \notin ori_adj
            /\ \A j \in 1 .. Len(ne) :
                  i # j => { ne[i][1], ne[i][2] } # { ne[j][1], ne[j][2] }

====
